---------------------------- MODULE Spec2Model ----------------------------
(***************************************************************************)
(* Model of the order-book aggregator: the per-exchange snapshots kept by  *)
(* the Merger (merge.rs), the top-N merge calculate_levels, the fan-in     *)
(* queue and the watch cell wired in examples/server.rs, and the           *)
(* subscriber stream WatchStream (serve.rs).                               *)
(*                                                                         *)
(* Prices and amounts are FinitePositiveF64 in the source; the model uses  *)
(* small naturals, on which the source's total order is the usual one.     *)
(***************************************************************************)
EXTENDS Integers, Sequences, FiniteSets, TLC

\* TOP_LEVELS is 10 in lib.rs; the model scales the capacity of every
\* ArrayVec<[Level; TOP_LEVELS]> down to keep the snapshots enumerable.
TOP_LEVELS == 2

\* Exchange::VARIANT_COUNT: Binance = 0, Bitstamp = 1.
VARIANT_COUNT == 2

\* Largest `size` argument handed to calculate_levels in SpecCalc.
MaxSize == 4

\* CHANNEL_SIZE is 100 in lib.rs; the model scales the capacity of the
\* fan-in queue down.
CHANNEL_SIZE == 2

\* The Source Streams are endless; the model lets them send this many
\* InputUpdates in all.
MaxUpdates == 2

\* A Source Stream is followed over this many events of its transport and
\* of its connection attempts.
MaxEvents == 5

\* The RPC calls the model follows.
Subscribers == {"s1", "s2"}

Exchanges == 0 .. (VARIANT_COUNT - 1)

\* Display with style = "lowercase".
to_string(exchange) == IF exchange = 0 THEN "binance" ELSE "bitstamp"

Level(p, a) == [price |-> p, amount |-> a]

\* The levels each exchange quotes in the Merger's specifications: the two
\* exchanges share one level, and quote one price with different amounts.
LevelsOf(exchange) ==
    IF exchange = 0 THEN {Level(1, 1), Level(2, 1)} ELSE {Level(1, 2), Level(2, 1)}

\* The levels of the calls of calculate_levels in SpecCalc.
Prices == {1, 2, 3}
Amounts == {1, 2}
Levels == {Level(p, a) : p \in Prices, a \in Amounts}

-----------------------------------------------------------------------------
(* level.rs: the two orderings *)

\* Ord for FinitePositiveF64 (partial_cmp of two finite non-negative floats).
cmp(x, y) == IF x < y THEN "Less" ELSE IF x = y THEN "Equal" ELSE "Greater"

reverse(o) == IF o = "Less" THEN "Greater" ELSE IF o = "Greater" THEN "Less" ELSE "Equal"

cmp_bid(self, other) ==
    LET c == cmp(self.price, other.price)
    IN  IF c = "Equal" THEN reverse(cmp(self.amount, other.amount)) ELSE reverse(c)

cmp_ask(self, other) ==
    LET c == cmp(self.price, other.price)
    IN  IF c = "Equal" THEN reverse(cmp(self.amount, other.amount)) ELSE c

\* The comparator argument of calculate_levels and is_sorted: "ask" stands
\* for Level::cmp_ask, "bid" for Level::cmp_bid.
cmp_fn(f, a, b) == IF f = "ask" THEN cmp_ask(a, b) ELSE cmp_bid(a, b)

\* lib.rs is_sorted: no window of two is in Greater order.
is_sorted(levels, f) ==
    \A i \in 1 .. (Len(levels) - 1) : cmp_fn(f, levels[i], levels[i + 1]) # "Greater"

into_orderbook_level(level, exchange) ==
    [exchange |-> to_string(exchange), price |-> level.price, amount |-> level.amount]

\* TryFrom<&orderbook::Level> for Level: the exchange is dropped.
try_into_level(olevel) == [price |-> olevel.price, amount |-> olevel.amount]

-----------------------------------------------------------------------------
(* merge.rs: calculate_levels *)

NoIndex == -1

\* Vec::insert(i, x) with a 0-based index i <= len.
insert(output, i, x) == SubSeq(output, 1, i) \o <<x>> \o SubSeq(output, i + 1, Len(output))

\* Vec::pop.
pop(output) == SubSeq(output, 1, Len(output) - 1)

\* scan leaving the loop at the first Less instead of scanning on.
scan_first_less(output, level, f, size, i, insert_index) ==
    IF i < 0 THEN insert_index
    ELSE IF cmp_fn(f, level, try_into_level(output[i + 1])) = "Less" THEN i
         ELSE IF Len(output) < size THEN i + 1 ELSE insert_index

\* The reverse scan of lines 93-105: i is the 0-based index being visited,
\* insert_index the value of the loop's Option<usize> (NoIndex for None).
RECURSIVE scan(_, _, _, _, _, _)
scan(output, level, f, size, i, insert_index) ==
    IF i < 0 THEN insert_index
    ELSE IF cmp_fn(f, level, try_into_level(output[i + 1])) = "Less"
         THEN scan(output, level, f, size, i - 1, i)
         ELSE IF Len(output) < size THEN i + 1 ELSE insert_index

\* scan with the test `!= Greater` in place of `== Less`: an equal level is
\* placed before the levels it ties with.
RECURSIVE scan_not_greater(_, _, _, _, _, _)
scan_not_greater(output, level, f, size, i, insert_index) ==
    IF i < 0 THEN insert_index
    ELSE IF cmp_fn(f, level, try_into_level(output[i + 1])) # "Greater"
         THEN scan_not_greater(output, level, f, size, i - 1, i)
         ELSE IF Len(output) < size THEN i + 1 ELSE insert_index

put_level_ties_first(output, level, exchange, f, size) ==
    IF output = <<>>
    THEN <<into_orderbook_level(level, exchange)>>
    ELSE LET insert_index == scan_not_greater(output, level, f, size, Len(output) - 1, NoIndex)
         IN  IF insert_index # NoIndex
             THEN insert(IF Len(output) >= size THEN pop(output) ELSE output,
                         insert_index, into_orderbook_level(level, exchange))
             ELSE output

\* put_level pushing every level before the scan: the push of line 89 not
\* guarded by is_empty and not followed by `continue`.
put_level_push_and_insert(output, level, exchange, f, size) ==
    LET pushed == Append(output, into_orderbook_level(level, exchange))
        insert_index == scan(pushed, level, f, size, Len(pushed) - 1, NoIndex)
    IN  IF insert_index # NoIndex
        THEN insert(IF Len(pushed) >= size THEN pop(pushed) ELSE pushed,
                    insert_index, into_orderbook_level(level, exchange))
        ELSE pushed

\* put_level without the pop of lines 108-110.
put_level_no_pop(output, level, exchange, f, size) ==
    IF output = <<>>
    THEN <<into_orderbook_level(level, exchange)>>
    ELSE LET insert_index == scan(output, level, f, size, Len(output) - 1, NoIndex)
         IN  IF insert_index # NoIndex
             THEN insert(output, insert_index, into_orderbook_level(level, exchange))
             ELSE output

\* put_level trusting the order of the first exchange's levels: they are
\* pushed as they come, which for a sorted snapshot is where the scan puts
\* them.
put_level_trusts_order(output, level, exchange, f, size) ==
    IF output = <<>> \/ (exchange = 0 /\ Len(output) < size)
    THEN Append(output, into_orderbook_level(level, exchange))
    ELSE LET insert_index == scan(output, level, f, size, Len(output) - 1, NoIndex)
         IN  IF insert_index # NoIndex
             THEN insert(IF Len(output) >= size THEN pop(output) ELSE output,
                         insert_index, into_orderbook_level(level, exchange))
             ELSE output

\* One iteration of the inner loop (lines 88-119).
put_level(output, level, exchange, f, size) ==
    IF output = <<>>
    THEN <<into_orderbook_level(level, exchange)>>
    ELSE LET insert_index == scan(output, level, f, size, Len(output) - 1, NoIndex)
         IN  IF insert_index # NoIndex
             THEN insert(IF Len(output) >= size THEN pop(output) ELSE output,
                         insert_index, into_orderbook_level(level, exchange))
             ELSE output

\* The inner loop over one exchange's levels, from index k on.
RECURSIVE put_levels(_, _, _, _, _, _)
put_levels(output, levels, k, exchange, f, size) ==
    IF k > Len(levels) THEN output
    ELSE put_levels(put_level(output, levels[k], exchange, f, size),
                    levels, k + 1, exchange, f, size)

\* The outer loop over exchanges.iter().enumerate(), from exchange e on.
RECURSIVE put_exchanges(_, _, _, _, _)
put_exchanges(output, exchanges, e, f, size) ==
    IF e >= VARIANT_COUNT THEN output
    ELSE put_exchanges(put_levels(output, exchanges[e], 1, e, f, size),
                       exchanges, e + 1, f, size)

calculate_levels(exchanges, f, size) == put_exchanges(<<>>, exchanges, 0, f, size)

-----------------------------------------------------------------------------
(* input_update.rs: InputUpdate *)

\* The sequences of at most n levels of L that is_sorted accepts under f.
SortedSeqs(L, f, n) ==
    {s \in UNION {[1 .. k -> L] : k \in 0 .. n} : is_sorted(s, f)}

\* InputUpdate::new; its debug assertions are the guard of the set
\* InputUpdates below.
InputUpdate_new(exchange, asks, bids) ==
    [exchange |-> exchange, asks |-> asks, bids |-> bids]

\* Every InputUpdate of exchange e that InputUpdate::new constructs (debug
\* build) from the levels the exchange quotes.
InputUpdatesOf(e) ==
    {InputUpdate_new(e, a, b) :
        a \in SortedSeqs(LevelsOf(e), "ask", TOP_LEVELS),
        b \in SortedSeqs(LevelsOf(e), "bid", TOP_LEVELS)}

InputUpdates == UNION {InputUpdatesOf(e) : e \in Exchanges}

-----------------------------------------------------------------------------
(* merge.rs: MergeState *)

\* Option<T> is a sequence of length at most one.
None == <<>>
Some(x) == <<x>>

\* MergeState::new.
MergeState_new ==
    [asks |-> [e \in Exchanges |-> <<>>], bids |-> [e \in Exchanges |-> <<>>]]

\* An update that adds the snapshot to the one stored instead of replacing
\* it.
update_extend(self, input) ==
    [asks |-> [self.asks EXCEPT ![input.exchange] = @ \o input.asks],
     bids |-> [self.bids EXCEPT ![input.exchange] = @ \o input.bids]]

\* An update that replaces the asks and leaves the bids as they were.
update_asks_only(self, input) ==
    [asks |-> [self.asks EXCEPT ![input.exchange] = input.asks],
     bids |-> self.bids]

\* MergeState::update.
update(self, input) ==
    [asks |-> [self.asks EXCEPT ![input.exchange] = input.asks],
     bids |-> [self.bids EXCEPT ![input.exchange] = input.bids]]

\* The spread with its operands exchanged.
spread_of_swapped(asks, bids) ==
    IF asks = <<>> \/ bids = <<>> THEN 0 ELSE bids[1].price - asks[1].price

\* The spread of MergeState::summary (lines 62-66).
spread_of(asks, bids) ==
    IF asks = <<>> \/ bids = <<>> THEN 0 ELSE asks[1].price - bids[1].price

\* orderbook::Summary { asks, bids, spread } as MergeState::summary builds it.
Summary(asks, bids) == [asks |-> asks, bids |-> bids, spread |-> spread_of(asks, bids)]

\* A summary that asks calculate_levels for TOP_LEVELS levels, as many as
\* one exchange holds.
summary_top_levels(self) ==
    Summary(calculate_levels(self.asks, "ask", TOP_LEVELS),
            calculate_levels(self.bids, "bid", TOP_LEVELS))

\* MergeState::summary.
summary(self) ==
    Summary(calculate_levels(self.asks, "ask", TOP_LEVELS * VARIANT_COUNT),
            calculate_levels(self.bids, "bid", TOP_LEVELS * VARIANT_COUNT))

-----------------------------------------------------------------------------
VARIABLES
    state,      \* the Merger's MergeState
    item,       \* Option: the summary the merge stream yielded, not yet sent
    calc,       \* SpecCalc: one call of calculate_levels, arguments and result
    inputs,     \* the fan-in queue (mpsc::channel(CHANNEL_SIZE))
    alive,      \* per exchange: its source task runs and holds its Sender
    pend,       \* per exchange: Option, the update its task holds at tx.send
    produced,   \* InputUpdates the Source Streams yielded so far
    fed,        \* history: the InputUpdates the Merger dequeued, in order
    outs,       \* the summaries the merge stream yielded, in order
    mpc,        \* the merge task: "next" (awaiting stream.next()), "send", "done"
    shared,     \* the watch cell of Option<Summary>
    subs,       \* per subscriber: its WatchStream and what it was delivered
    ss,         \* SpecSource: one Source Stream and its transport
    ctor,       \* SpecNew: one call of InputUpdate::new, arguments and result
    dec,        \* SpecDecode: one call of a decoder or conversion, argument and result
    conn        \* SpecReconnect: per exchange, the state of its Source Stream

mergeVars == <<state, item>>
calcVars == <<calc>>
pipeVars == <<inputs, alive, pend, produced, fed, outs, mpc, shared, subs, conn>>
vars == <<state, item, calc, inputs, alive, pend, produced, fed, outs, mpc, shared, subs, ss, ctor, dec, conn>>

-----------------------------------------------------------------------------
(* tokio::sync::watch as serve.rs and examples/server.rs use it.  A        *)
(* Receiver is the version it has seen; the shared state holds the value,  *)
(* the version of the last send and whether the Sender is gone.            *)

\* watch::channel(init): the Receiver it returns has seen the initial value.
watch_channel(init) == [value |-> init, version |-> 0, closed |-> FALSE]

\* The Receiver the Aggregator keeps (Aggregator::new): it never calls
\* changed, so it stays at the version watch::channel gave it.
Aggregator_rx == watch_channel(None).version

\* clone as Sender::subscribe would be: the new Receiver has seen the
\* value the cell holds now.
clone_seen(rx) == shared.version

\* Receiver::clone copies the version seen.
clone(rx) == rx

\* A send that keeps the value the cell holds once it holds one.
send_first_wins(shared_, value) ==
    [shared_ EXCEPT !.value = IF @ = None THEN value ELSE @, !.version = @ + 1]

\* Sender::send: the value is replaced and the version advances.
send(shared_, value) == [shared_ EXCEPT !.value = value, !.version = @ + 1]

\* Receiver::borrow: the current value; the version seen is left alone.
borrow(shared_) == shared_.value

\* Receiver::changed, polled once: "Ok" when the shared version differs from
\* the one seen, else "Err" when the Sender is gone, else "Pending".
changed(rx, shared_) ==
    IF shared_.version # rx THEN "Ok"
    ELSE IF shared_.closed THEN "Err" ELSE "Pending"

-----------------------------------------------------------------------------
(* serve.rs: WatchStream *)

\* A subscriber before its BookSummary call.
NoStream ==
    [st |-> "none", inputs |-> Aggregator_rx, fut |-> Aggregator_rx, fpc |-> "changed",
     woken |-> FALSE, waker |-> FALSE, late |-> FALSE, prev |-> None, got |-> None]

\* WatchStream::new(rx): next_future is recv_next(inputs.clone()), not yet
\* polled; `late` records whether a summary had been pushed by then.
WatchStream_new(rx, late) ==
    [st |-> "open", inputs |-> rx, fut |-> clone(rx), fpc |-> "changed",
     woken |-> TRUE, waker |-> FALSE, late |-> late, prev |-> None, got |-> None]

\* The stream yields the item it yielded last time once more, after the
\* new one.
deliver_replay(sub, value) ==
    [sub EXCEPT !.prev = value, !.got = IF sub.got # None THEN sub.got ELSE value]

\* Poll::Ready(Some(item)): the item is delivered to the subscriber; `got`
\* is the last item delivered and `prev` the one before it.
deliver(sub, value) == [sub EXCEPT !.prev = sub.got, !.got = value]

\* notify_waiters waking nobody.
notify_nobody(subs_) == subs_

\* Notify::notify_waiters: every task whose waker is registered is woken.
notify_waiters(subs_) ==
    [s \in DOMAIN subs_ |->
        IF subs_[s].waker THEN [subs_[s] EXCEPT !.woken = TRUE, !.waker = FALSE]
        ELSE subs_[s]]

\* The merge stream yielding every summary but one equal to the last.
yield_dedup(outs_, s) ==
    IF outs_ # <<>> /\ outs_[Len(outs_)] = s THEN outs_ ELSE Append(outs_, s)

\* `yield state.summary()` (merge.rs line 19): the stream's output so far.
yield(outs_, s) == Append(outs_, s)

-----------------------------------------------------------------------------
\* No call of calculate_levels is being observed.
CalcIdle == [exchanges |-> [e \in Exchanges |-> <<>>], f |-> "ask", size |-> 0, output |-> None]

\* No Source Stream is being observed.
SourceIdle ==
    [kind |-> 0, state |-> "Idle", sessions |-> 0, acked |-> FALSE,
     log |-> <<>>, emitted |-> <<>>, result |-> "Pending", retries |-> 0, stderr |-> ""]

\* No call of InputUpdate::new is being observed.
CtorIdle ==
    [build |-> "debug", via |-> "idle", exchange |-> 0, asks |-> <<>>, bids |-> <<>>, output |-> None]

\* The connections of the Source Streams are not being observed: each
\* stream is taken to be in its state Streaming.
ConnIdle == [e \in Exchanges |-> "Streaming"]

\* No decoder or conversion is being observed.
DecIdle == [op |-> "idle", arg |-> <<>>, output |-> None]

\* main (examples/server.rs) before any task ran.
InitPipe ==
    /\ inputs = <<>>
    /\ alive = [e \in Exchanges |-> TRUE]
    /\ pend = [e \in Exchanges |-> None]
    /\ produced = 0
    /\ fed = <<>>
    /\ outs = <<>>
    /\ mpc = "next"
    /\ shared = watch_channel(None)
    /\ conn = ConnIdle
    /\ subs = [s \in Subscribers |-> NoStream]
    /\ ss = SourceIdle
    /\ ctor = CtorIdle
    /\ dec = DecIdle

-----------------------------------------------------------------------------
(* SpecMerge: a fresh MergeState fed any sequence of InputUpdates *)

InitMerge ==
    /\ state = MergeState_new
    /\ item = None
    /\ calc = CalcIdle
    /\ InitPipe

\* One iteration of the loop of test_stays_sorted: state.update(update);
\* the summary the test then reads is summary(state) of the new state.
Feed ==
    \E input \in InputUpdates :
        /\ state' = update(state, input)
        /\ UNCHANGED <<item, calc, ss, ctor, dec, pipeVars>>

NextMerge == Feed

SpecMerge == InitMerge /\ [][NextMerge]_vars

-----------------------------------------------------------------------------
(* SpecCalc: calculate_levels called on any two sorted snapshots *)

InitCalc ==
    /\ state = MergeState_new
    /\ item = None
    /\ InitPipe
    /\ \E f \in {"ask", "bid"}, size \in 1 .. MaxSize :
         \E a \in SortedSeqs(Levels, f, TOP_LEVELS), b \in SortedSeqs(Levels, f, TOP_LEVELS) :
            calc = [exchanges |-> [e \in Exchanges |-> IF e = 0 THEN a ELSE b],
                    f |-> f, size |-> size, output |-> None]

\* The call returns.
Calculate ==
    /\ calc.output = None
    /\ calc' = [calc EXCEPT !.output = Some(calculate_levels(calc.exchanges, calc.f, calc.size))]
    /\ UNCHANGED <<state, item, ss, ctor, dec, pipeVars>>

NextCalc == Calculate

SpecCalc == InitCalc /\ [][NextCalc]_vars

-----------------------------------------------------------------------------
(* Spec: the server of examples/server.rs: two source tasks, the fan-in,   *)
(* the merge task, the watch cell and the subscribers' streams             *)

\* The snapshot each exchange's Source Stream decodes from its frames.
UpdateOf(e) ==
    IF e = 0
    THEN InputUpdate_new(0, <<Level(2, 1)>>, <<Level(1, 1)>>)
    ELSE InputUpdate_new(1, <<Level(1, 2), Level(2, 1)>>, <<Level(1, 2)>>)

\* An update with its history tag.
Tagged(u, n) == [exchange |-> u.exchange, asks |-> u.asks, bids |-> u.bids, n |-> n]

\* mpsc Sender::send putting the item at the head of the queue.
enqueue_front(queue, x) == <<x>> \o queue

\* mpsc Sender::send: the item joins the tail of the queue.
enqueue(queue, x) == Append(queue, x)

\* mpsc Receiver::recv: the item at the head of the queue...
recv(queue) == Head(queue)

\* ...which leaves the queue.
rest(queue) == Tail(queue)

Init ==
    /\ state = MergeState_new
    /\ item = None
    /\ calc = CalcIdle
    /\ InitPipe

\* The updates the model lets the Source Streams yield: one more when no
\* client is followed.
Budget ==
    IF \A s \in Subscribers : subs[s].st = "absent" THEN MaxUpdates + 1 ELSE MaxUpdates

\* A source task: stream.next() yields an update.  The model tags it with
\* its ordinal among all the updates yielded (`n`, a history field).
SourceNext(e) ==
    /\ alive[e]
    /\ pend[e] = None
    /\ produced < Budget
    /\ pend' = [pend EXCEPT ![e] = Some(Tagged(UpdateOf(e), produced + 1))]
    /\ produced' = produced + 1
    /\ UNCHANGED <<state, item, calc, ss, ctor, dec, conn, inputs, alive, fed, outs, mpc, shared, subs>>

\* A send that gives the item up when the queue is full, as try_send
\* with its error ignored would.
SourceSend_lossy(e) ==
    /\ alive[e]
    /\ pend[e] # None
    /\ inputs' = IF Len(inputs) < CHANNEL_SIZE THEN enqueue(inputs, pend[e][1]) ELSE inputs
    /\ pend' = [pend EXCEPT ![e] = None]
    /\ UNCHANGED <<state, item, calc, ss, ctor, dec, conn, alive, produced, fed, outs, mpc, shared, subs>>

\* tx.send(item).await completes, which needs room in the queue; until
\* then the task is suspended holding the item.
SourceSend(e) ==
    /\ alive[e]
    /\ pend[e] # None
    /\ Len(inputs) < CHANNEL_SIZE
    /\ inputs' = enqueue(inputs, pend[e][1])
    /\ pend' = [pend EXCEPT ![e] = None]
    /\ UNCHANGED <<state, item, calc, ss, ctor, dec, conn, alive, produced, fed, outs, mpc, shared, subs>>

\* A source task panics in get_stream_inner ("Could not open connection"),
\* which runs inside stream.next(): the task ends and its Sender is dropped.
SourceDies(e) ==
    /\ alive[e]
    /\ pend[e] = None
    /\ alive' = [alive EXCEPT ![e] = FALSE]
    /\ UNCHANGED <<state, item, calc, ss, ctor, dec, conn, inputs, pend, produced, fed, outs, mpc, shared, subs>>

\* The merge task polls the merge stream: inputs.recv() returns an update,
\* the state is updated and the summary of the updated state is yielded.
\* A yielded summary carries its ordinal in the stream's output as `seq`.
MergerNext ==
    /\ mpc = "next"
    /\ inputs # <<>>
    /\ inputs' = rest(inputs)
    /\ fed' = Append(fed, recv(inputs))
    /\ state' = update(state, recv(inputs))
    /\ outs' = yield(outs, summary(state'))
    /\ item' = Some([seq |-> Len(fed'), summary |-> summary(state')])
    /\ mpc' = "send"
    /\ UNCHANGED <<calc, ss, ctor, dec, conn, alive, pend, produced, shared, subs>>

\* A send that waits until every open stream has been delivered the value
\* the cell holds, as a bounded broadcast queue of one slot would.
MergerSend_waits ==
    /\ mpc = "send"
    /\ \A s \in Subscribers :
          subs[s].st = "open" /\ shared.value # None =>
              subs[s].got # None /\ subs[s].got[1].seq = shared.version
    /\ shared' = send(shared, item)
    /\ subs' = notify_waiters(subs)
    /\ item' = None
    /\ mpc' = "next"
    /\ UNCHANGED <<state, calc, ss, ctor, dec, conn, inputs, alive, pend, produced, fed, outs>>

\* summaries_tx.send(Some(item)): the cell is replaced, the waiters woken.
MergerSend ==
    /\ mpc = "send"
    /\ shared' = send(shared, item)
    /\ subs' = notify_waiters(subs)
    /\ item' = None
    /\ mpc' = "next"
    /\ UNCHANGED <<state, calc, ss, ctor, dec, conn, inputs, alive, pend, produced, fed, outs>>

\* A recv that returns None as soon as every Sender is dropped, leaving
\* behind what is still in the queue.
MergerEnds_drops_queued ==
    /\ mpc = "next"
    /\ \A e \in Exchanges : ~alive[e]
    /\ mpc' = "done"
    /\ shared' = [shared EXCEPT !.closed = TRUE]
    /\ subs' = notify_waiters(subs)
    /\ UNCHANGED <<state, item, calc, ss, ctor, dec, conn, inputs, alive, pend, produced, fed, outs>>

\* inputs.recv() returns None: the queue is empty and every Sender is
\* dropped.  The merge stream ends, the task ends and drops summaries_tx.
MergerEnds ==
    /\ mpc = "next"
    /\ inputs = <<>>
    /\ \A e \in Exchanges : ~alive[e]
    /\ mpc' = "done"
    /\ shared' = [shared EXCEPT !.closed = TRUE]
    /\ subs' = notify_waiters(subs)
    /\ UNCHANGED <<state, item, calc, ss, ctor, dec, conn, inputs, alive, pend, produced, fed, outs>>

\* Aggregator::book_summary: a WatchStream over a clone of the Aggregator's
\* Receiver.
BookSummary(s) ==
    /\ subs[s].st = "none"
    /\ subs' = [subs EXCEPT ![s] = WatchStream_new(clone(Aggregator_rx), shared.value # None)]
    /\ UNCHANGED <<state, item, calc, ss, ctor, dec, conn, inputs, alive, pend, produced, fed, outs, mpc, shared>>

\* WatchStream::poll_next polls next_future, which is at rx.changed().await.
PollChanged(s) ==
    /\ subs[s].st = "open"
    /\ subs[s].woken
    /\ subs[s].fpc = "changed"
    /\ \/ /\ changed(subs[s].fut, shared) = "Ok"
          /\ subs' = [subs EXCEPT ![s].fut = shared.version, ![s].fpc = "borrow"]
       \/ /\ changed(subs[s].fut, shared) = "Err"
          /\ subs' = [subs EXCEPT ![s].st = "ended", ![s].woken = FALSE]
       \/ /\ changed(subs[s].fut, shared) = "Pending"
          /\ subs' = [subs EXCEPT ![s].woken = FALSE, ![s].waker = TRUE]
    /\ UNCHANGED <<state, item, calc, ss, ctor, dec, conn, inputs, alive, pend, produced, fed, outs, mpc, shared>>

\* The same poll goes on after changed() returned Ok: recv_next borrows the
\* value, poll_next replaces next_future by recv_next(self.inputs.clone())
\* and returns the value if it is Some, else Pending (the new future was
\* not polled, so no waker is registered).
PollBorrow(s) ==
    /\ subs[s].st = "open"
    /\ subs[s].fpc = "borrow"
    /\ LET fresh == [subs[s] EXCEPT !.fut = clone(subs[s].inputs), !.fpc = "changed"]
       IN subs' = [subs EXCEPT ![s] =
                     IF borrow(shared) # None
                     THEN deliver(fresh, borrow(shared))
                     ELSE [fresh EXCEPT !.woken = FALSE]]
    /\ UNCHANGED <<state, item, calc, ss, ctor, dec, conn, inputs, alive, pend, produced, fed, outs, mpc, shared>>

Next ==
    \/ \E e \in Exchanges : SourceNext(e) \/ SourceSend(e) \/ SourceDies(e)
    \/ MergerNext
    \/ MergerSend
    \/ MergerEnds
    \/ \E s \in Subscribers : BookSummary(s) \/ PollChanged(s) \/ PollBorrow(s)

Spec == Init /\ [][Next]_vars

-----------------------------------------------------------------------------
(* Properties of the summaries of a MergeState (SpecMerge) *)

\* The levels of a summary side, as test_stays_sorted converts them back.
levels_of(olevels) == [i \in DOMAIN olevels |-> try_into_level(olevels[i])]

tags_of(olevels) == {olevels[i].exchange : i \in DOMAIN olevels}

\* C1: after every update fed to a fresh MergeState the summary has its asks
\* sorted best first by cmp_ask and its bids sorted best first by cmp_bid.
C1_SummarySorted ==
    /\ is_sorted(levels_of(summary(state).asks), "ask")
    /\ is_sorted(levels_of(summary(state).bids), "bid")

\* Both sides of the summary interleave levels of the two exchanges at
\* different prices.
C1_Witness ==
    /\ tags_of(summary(state).asks) = {"binance", "bitstamp"}
    /\ tags_of(summary(state).bids) = {"binance", "bitstamp"}
    /\ Len(summary(state).asks) >= 3
    /\ Len(summary(state).bids) >= 3
    /\ summary(state).asks[1].exchange = "bitstamp"
    /\ summary(state).asks[1].price < summary(state).asks[Len(summary(state).asks)].price
    /\ summary(state).bids[1].price > summary(state).bids[Len(summary(state).bids)].price

\* C2: the spread of every summary, the one of the fresh state included, is
\* asks[0].price - bids[0].price when both merged sides are non-empty and 0
\* when the merged asks or the merged bids are empty.
C2_SpreadRule ==
    /\ (summary(state).asks # <<>> /\ summary(state).bids # <<>>)
          => summary(state).spread = summary(state).asks[1].price - summary(state).bids[1].price
    /\ (summary(state).asks = <<>> \/ summary(state).bids = <<>>)
          => summary(state).spread = 0

\* Both sides are merged from the two exchanges and the book is not flat.
C2_Witness ==
    /\ state.asks[0] # <<>> /\ state.asks[1] # <<>>
    /\ state.bids[0] # <<>> /\ state.bids[1] # <<>>
    /\ summary(state).spread = 1

\* C3: every summary has at most TOP_LEVELS * |Exchange| levels in asks and
\* at most that many in bids.
C3_SummaryBounded ==
    /\ Len(summary(state).asks) <= TOP_LEVELS * VARIANT_COUNT
    /\ Len(summary(state).bids) <= TOP_LEVELS * VARIANT_COUNT

\* Both sides are full, after a snapshot of each exchange was replaced.
C3_Witness ==
    /\ Len(summary(state).asks) = TOP_LEVELS * VARIANT_COUNT
    /\ Len(summary(state).bids) = TOP_LEVELS * VARIANT_COUNT

-----------------------------------------------------------------------------
(* Properties of calculate_levels (SpecCalc) *)

\* How often level l occurs in a snapshot, and how often it occurs in the
\* output tagged with exchange e.
CountIn(levels, l) == Cardinality({i \in DOMAIN levels : levels[i] = l})

CountTagged(output, e, l) ==
    Cardinality({i \in DOMAIN output : output[i] = into_orderbook_level(l, e)})

RECURSIVE TotalFrom(_, _)
TotalFrom(exchanges, e) ==
    IF e >= VARIANT_COUNT THEN 0 ELSE Len(exchanges[e]) + TotalFrom(exchanges, e + 1)

\* The number of levels in all snapshots.
Total(exchanges) == TotalFrom(exchanges, 0)

Min(a, b) == IF a <= b THEN a ELSE b

Snapshots(a, b) == [e \in Exchanges |-> IF e = 0 THEN a ELSE b]

OLevel(name, p, a) == [exchange |-> name, price |-> p, amount |-> a]

\* output holds the min(size, total) best levels of the snapshots under f,
\* best first, each tagged with the exchange it came from.
IsTopN(output, exchanges, f, size) ==
    /\ Len(output) = Min(size, Total(exchanges))
    /\ is_sorted(levels_of(output), f)
    /\ \A i \in DOMAIN output :
          \E e \in Exchanges : output[i].exchange = to_string(e)
    /\ \A e \in Exchanges :
          \A i \in DOMAIN output :
             output[i].exchange = to_string(e)
                => CountTagged(output, e, try_into_level(output[i]))
                      <= CountIn(exchanges[e], try_into_level(output[i]))
    /\ \A e \in Exchanges :
          \A k \in DOMAIN exchanges[e] :
             CountTagged(output, e, exchanges[e][k]) < CountIn(exchanges[e], exchanges[e][k])
                => \A i \in DOMAIN output :
                      cmp_fn(f, exchanges[e][k], try_into_level(output[i])) # "Less"

\* C4: for sorted snapshots, either comparator and every size >= 1,
\* calculate_levels returns exactly the min(size, total) best levels of the
\* union of the snapshots, best first, each tagged with the lowercase name
\* of its exchange; the two cases of test_bids and test_asks are included.
C4_TopN ==
    /\ calc.output # None
          => IsTopN(calc.output[1], calc.exchanges, calc.f, calc.size)
    /\ calculate_levels(Snapshots(<<Level(50, 1), Level(40, 1)>>,
                                  <<Level(51, 1), Level(30, 1)>>), "bid", 2)
          = <<OLevel("bitstamp", 51, 1), OLevel("binance", 50, 1)>>
    /\ calculate_levels(Snapshots(<<Level(50, 1), Level(40, 1)>>,
                                  <<Level(51, 1), Level(30, 1)>>), "ask", 2)
          = <<OLevel("bitstamp", 30, 1), OLevel("binance", 40, 1)>>

\* A call that returned a truncated output mixing both exchanges, one that
\* evicted a level it had placed before.
C4_Witness ==
    /\ calc.output # None
    /\ calc.size >= 2
    /\ Total(calc.exchanges) > calc.size
    /\ tags_of(calc.output[1]) = {"binance", "bitstamp"}
    /\ calc.output[1][1].exchange = "bitstamp"
    /\ Len(calc.exchanges[0]) >= calc.size

\* The order of the output among levels that tie, and what is kept of them.
TieOrder(output, exchanges) ==
    /\ \A i \in 1 .. (Len(output) - 1) :
          output[i].price = output[i + 1].price
             => /\ output[i].amount >= output[i + 1].amount
                /\ output[i].amount = output[i + 1].amount
                      => ~(output[i].exchange = "bitstamp" /\ output[i + 1].exchange = "binance")
    /\ \A i \in DOMAIN output :
          output[i].exchange = "bitstamp"
             => CountTagged(output, 0, try_into_level(output[i]))
                   = CountIn(exchanges[0], try_into_level(output[i]))

\* C5: in the output of calculate_levels levels of equal price are ordered
\* by amount descending for asks and for bids, fully equal levels of
\* different exchanges are ordered Binance before Bitstamp, and under
\* truncation a Bitstamp level is kept only if every equal Binance level is
\* kept; the equal-price cases of test_bids and test_asks are included.
C5_TieBreaks ==
    /\ calc.output # None => TieOrder(calc.output[1], calc.exchanges)
    /\ \A f \in {"ask", "bid"} :
          /\ calculate_levels(Snapshots(<<Level(51, 3), Level(51, 1)>>,
                                        <<Level(51, 2), Level(51, 1)>>), f, 2)
                = <<OLevel("binance", 51, 3), OLevel("bitstamp", 51, 2)>>
          /\ calculate_levels(Snapshots(<<Level(51, 3), Level(51, 1)>>,
                                        <<Level(51, 2), Level(51, 1)>>), f, 3)
                = <<OLevel("binance", 51, 3), OLevel("bitstamp", 51, 2),
                    OLevel("binance", 51, 1)>>

\* A truncated output in which a level of Binance is kept and the equal
\* level of Bitstamp is not, next to a level of the same price and a larger
\* amount.
C5_Witness ==
    /\ calc.output # None
    /\ Total(calc.exchanges) > calc.size
    /\ \E i \in 1 .. (Len(calc.output[1]) - 1) :
          /\ calc.output[1][i].price = calc.output[1][i + 1].price
          /\ calc.output[1][i].amount > calc.output[1][i + 1].amount
          /\ calc.output[1][i + 1].exchange = "binance"
          /\ CountIn(calc.exchanges[1], try_into_level(calc.output[1][i + 1])) > 0
          /\ CountTagged(calc.output[1], 1, try_into_level(calc.output[1][i + 1])) = 0

-----------------------------------------------------------------------------
(* Properties of the server (Spec) *)

\* The ordinal a delivered or pushed item carries.
seq_of(option) == option[1].seq

\* The index of the last of the first k dequeued updates that came from
\* exchange e, 0 if there is none.
LastFrom(k, e) ==
    LET I == {i \in 1 .. k : fed[i].exchange = e}
    IN IF I = {} THEN 0 ELSE CHOOSE i \in I : \A j \in I : j <= i

\* The summary of what the first k dequeued updates say: for every exchange
\* its latest snapshot among them.
SummaryAfter(k) ==
    Summary(calculate_levels([e \in Exchanges |-> IF LastFrom(k, e) = 0 THEN <<>> ELSE fed[LastFrom(k, e)].asks],
                             "ask", TOP_LEVELS * VARIANT_COUNT),
            calculate_levels([e \in Exchanges |-> IF LastFrom(k, e) = 0 THEN <<>> ELSE fed[LastFrom(k, e)].bids],
                             "bid", TOP_LEVELS * VARIANT_COUNT))

\* C6: after k InputUpdates were dequeued from the fan-in the merge stream
\* has yielded exactly k summaries, the k-th being the summary of the state
\* after the first k updates (equal consecutive summaries are both yielded),
\* and the summary awaiting its push is the last one yielded.
C6_OnePerUpdate ==
    /\ Len(outs) = Len(fed)
    /\ \A k \in 1 .. Len(outs) : outs[k] = SummaryAfter(k)
    /\ (item # None) = (mpc = "send")
    /\ item # None => item = Some([seq |-> Len(outs), summary |-> outs[Len(outs)]])

\* Two updates were dequeued and pushed, and their summaries are equal.
C6_Witness ==
    /\ Len(fed) = 2
    /\ Len(outs) = 2
    /\ outs[1] = outs[2]
    /\ shared.version = 2

\* C7: every item a subscriber is delivered is a summary that was pushed,
\* and of two consecutive deliveries to one subscriber the later one is of a
\* later push than the earlier one: no push is delivered twice, a new push
\* happened between the two deliveries.
C7_DeliveredOnce ==
    \A s \in Subscribers :
        /\ subs[s].got # None => seq_of(subs[s].got) \in 1 .. shared.version
        /\ subs[s].prev # None => seq_of(subs[s].prev) < seq_of(subs[s].got)

\* C8: the k-th push puts the k-th summary into the cell, and of two
\* consecutive deliveries to one subscriber the later one is not of an
\* earlier push than the earlier one.
C8_NoReordering ==
    /\ shared.value # None =>
          shared.value = Some([seq |-> shared.version, summary |-> outs[shared.version]])
    /\ \A s \in Subscribers :
          /\ subs[s].got # None => seq_of(subs[s].got) \in 1 .. shared.version
          /\ subs[s].prev # None => seq_of(subs[s].prev) <= seq_of(subs[s].got)

\* One subscriber was delivered push 1 and then push 2, another one push 2
\* only.
C8_Witness ==
    \E s, t \in Subscribers :
        /\ subs[s].prev # None
        /\ seq_of(subs[s].prev) = 1
        /\ seq_of(subs[s].got) = 2
        /\ subs[t].prev = None
        /\ subs[t].got # None
        /\ seq_of(subs[t].got) = 2

\* A subscriber that opened its stream after a push and was delivered
\* nothing yet is never parked: its poll finds the cell changed.
LateNeverWaits ==
    \A s \in Subscribers :
        subs[s].late /\ subs[s].got = None =>
            /\ subs[s].st = "open"
            /\ ~subs[s].waker
            /\ \/ subs[s].fpc = "borrow"
               \/ subs[s].woken /\ changed(subs[s].fut, shared) = "Ok"

\* A subscriber that opened its stream while the cell was empty was
\* delivered nothing as long as the cell is empty.
EarlyYieldsNothing ==
    \A s \in Subscribers :
        shared.value = None => ~subs[s].late /\ subs[s].got = None /\ subs[s].fpc = "changed"

\* The first item a subscriber is delivered is the value of the cell at that
\* poll, and a late subscriber's first poll delivers it.
FirstIsCurrent ==
    \A s \in Subscribers :
        /\ subs[s].got = None /\ subs'[s].got # None =>
              subs'[s].got = shared.value /\ subs'[s].prev = None
        /\ subs[s].late /\ subs[s].got = None /\ subs[s].fpc = "borrow" /\ subs'[s] # subs[s] =>
              subs'[s].got = shared.value /\ shared.value # None

\* C9: a subscriber that opens its stream after a push is delivered the
\* cell's current value as its first item, by polls that never return
\* Pending; a subscriber that opens it while the cell is empty is delivered
\* nothing until the first push.
C9_LateJoiner == [](LateNeverWaits /\ EarlyYieldsNothing) /\ [][FirstIsCurrent]_vars

\* A late subscriber's first item was push 2, the cell's value when it
\* polled, and an early subscriber was delivered an item too.
C9_Witness ==
    \E s, t \in Subscribers :
        /\ subs[s].late /\ subs[s].prev = None /\ subs[s].got # None
        /\ seq_of(subs[s].got) = 2
        /\ ~subs[t].late /\ subs[t].got # None

-----------------------------------------------------------------------------
(* SpecFair: the server with every open stream polled again and again *)

\* The executor runs a woken subscriber task; a poll, once started, ends.
SubscriberScheduled ==
    \A s \in Subscribers : WF_vars(PollChanged(s)) /\ WF_vars(PollBorrow(s))

\* One client calls BookSummary, the other never does.
InitFair ==
    /\ state = MergeState_new
    /\ item = None
    /\ calc = CalcIdle
    /\ inputs = <<>>
    /\ alive = [e \in Exchanges |-> TRUE]
    /\ pend = [e \in Exchanges |-> None]
    /\ produced = 0
    /\ fed = <<>>
    /\ outs = <<>>
    /\ mpc = "next"
    /\ shared = watch_channel(None)
    /\ conn = ConnIdle
    /\ subs = [s \in Subscribers |-> IF s = "s1" THEN NoStream ELSE [NoStream EXCEPT !.st = "absent"]]
    /\ ss = SourceIdle
    /\ ctor = CtorIdle
    /\ dec = DecIdle

SpecFair == InitFair /\ [][Next]_vars /\ SubscriberScheduled

\* C10: a subscriber that opened its stream before the first push and is
\* still open when the cell holds push k is eventually delivered push k or
\* a later one, whatever pushes it skipped.
C10_EventuallyLatest ==
    \A s \in Subscribers : \A k \in 1 .. MaxUpdates :
        (subs[s].st = "open" /\ ~subs[s].late /\ shared.version = k)
            ~> (subs[s].got # None /\ seq_of(subs[s].got) >= k)

\* An early subscriber is delivered push 2 as its first item: push 1 was
\* coalesced.
C10_Witness ==
    \E s \in Subscribers :
        /\ subs[s].st = "open" /\ ~subs[s].late
        /\ subs[s].prev = None /\ subs[s].got # None
        /\ seq_of(subs[s].got) = 2 /\ shared.version = 2

\* Once a stream has ended it stays ended and delivers nothing more.
EndedIsFinal ==
    \A s \in Subscribers : subs[s].st = "ended" => subs'[s] = subs[s]

\* C11: once the merge task has dropped summaries_tx, every open subscriber
\* stream eventually ends, whether or not a summary was pushed before, and
\* an ended stream stays ended and yields nothing.
C11_StreamEnds ==
    /\ \A s \in Subscribers : (shared.closed /\ subs[s].st = "open") ~> (subs[s].st = "ended")
    /\ [][EndedIsFinal]_vars

-----------------------------------------------------------------------------
(* SpecStalled: the server with a client "s2" that opens its stream and    *)
(* never polls it, beside a client "s1" that is polled again and again     *)

NextStalled ==
    \/ \E e \in Exchanges : SourceNext(e) \/ SourceSend(e) \/ SourceDies(e)
    \/ MergerNext
    \/ MergerSend
    \/ MergerEnds
    \/ \E s \in Subscribers : BookSummary(s)
    \/ PollChanged("s1")
    \/ PollBorrow("s1")

\* The merge task's send is synchronous; the executor runs s1's task.
StalledFairness ==
    WF_vars(MergerSend) /\ WF_vars(PollChanged("s1")) /\ WF_vars(PollBorrow("s1"))

SpecStalled == Init /\ [][NextStalled]_vars /\ StalledFairness

\* C12: the push of a yielded summary is enabled whatever the subscribers
\* are and have seen, so it happens; and with "s2" open and never polled,
\* "s1" is still delivered the summary the cell holds, or a later one.
C12_PushNeverBlocked ==
    /\ [](mpc = "send" => ENABLED MergerSend)
    /\ (mpc = "send") ~> (mpc # "send")
    /\ \A k \in 1 .. MaxUpdates :
          (subs["s1"].st = "open" /\ subs["s2"].st = "open" /\ shared.version = k)
              ~> (subs["s1"].got # None /\ seq_of(subs["s1"].got) >= k)

\* "s2" opened its stream before the first push and was delivered nothing;
\* two pushes happened and "s1" was delivered the second.
C12_Witness ==
    /\ subs["s2"].st = "open" /\ ~subs["s2"].late /\ subs["s2"].got = None
    /\ shared.version = 2
    /\ subs["s1"].got # None /\ seq_of(subs["s1"].got) = 2

-----------------------------------------------------------------------------
(* Properties of the fan-in *)

\* Of two updates of one exchange in the sequence q the earlier one was
\* yielded earlier by that exchange's Source Stream.
PerExchangeOrder(q) ==
    \A i, j \in 1 .. Len(q) :
        i < j /\ q[i].exchange = q[j].exchange => q[i].n < q[j].n

\* C13: the updates of one exchange are dequeued by the Merger, and wait in
\* the queue, in the order its Source Stream yielded them, and the update
\* its task still holds was yielded after all of them; updates of different
\* exchanges are in any order.
C13_PerExchangeFifo ==
    /\ PerExchangeOrder(fed \o inputs)
    /\ \A e \in Exchanges :
          pend[e] # None => PerExchangeOrder(fed \o inputs \o pend[e])

\* The Merger dequeued two updates of one exchange, after the queue held
\* both.
C13_Witness ==
    /\ Len(fed) = 2
    /\ fed[1].exchange = fed[2].exchange
    /\ fed[1].n = 1
    /\ fed[2].n = 2

-----------------------------------------------------------------------------
(* SpecFanIn: the source tasks, the fan-in queue and the merge task, with  *)
(* no client, the merge task running whenever it can                       *)

InitFanIn ==
    /\ state = MergeState_new
    /\ item = None
    /\ calc = CalcIdle
    /\ inputs = <<>>
    /\ alive = [e \in Exchanges |-> TRUE]
    /\ pend = [e \in Exchanges |-> None]
    /\ produced = 0
    /\ fed = <<>>
    /\ outs = <<>>
    /\ mpc = "next"
    /\ shared = watch_channel(None)
    /\ conn = ConnIdle
    /\ subs = [s \in Subscribers |-> [NoStream EXCEPT !.st = "absent"]]
    /\ ss = SourceIdle
    /\ ctor = CtorIdle
    /\ dec = DecIdle

NextFanIn ==
    \/ \E e \in Exchanges : SourceNext(e) \/ SourceSend(e) \/ SourceDies(e)
    \/ MergerNext
    \/ MergerSend
    \/ MergerEnds

\* What a MergerNext step does to the merge task and the queue.  A step of
\* the server that does this is a MergerNext step, and it is enabled exactly
\* when MergerNext is.
MergerDequeues ==
    /\ mpc = "next"
    /\ inputs # <<>>
    /\ mpc' = "send"
    /\ inputs' = rest(inputs)

\* The merge task keeps running: the executor polls it when an update is
\* in the queue (weak fairness of MergerNext), and its send is synchronous.
MergerRuns == WF_<<mpc, inputs>>(MergerDequeues) /\ WF_vars(MergerSend)

SpecFanIn == InitFanIn /\ [][NextFanIn]_vars /\ MergerRuns

\* The ordinals of the updates in the sequence q.
TagsOf(q) == {q[i].n : i \in 1 .. Len(q)}

\* The updates the source tasks hold at their send.
Held == {e \in Exchanges : pend[e] # None}

\* Every update yielded so far is in exactly one place: dequeued, in the
\* queue, or held by its task at send.
NothingLost ==
    /\ TagsOf(fed) \cup TagsOf(inputs) \cup {pend[e][1].n : e \in Held} = 1 .. produced
    /\ Len(fed) + Len(inputs) + Cardinality(Held) = produced

\* While the queue is full nothing is put into it or replaced in it.
FullQueueBlocks ==
    Len(inputs) = CHANNEL_SIZE => inputs' = inputs \/ inputs' = rest(inputs)

\* C14: the fan-in queue never holds more than CHANNEL_SIZE updates; a send
\* that finds it full waits, holding its update; no update is lost or
\* duplicated; and with the merge task running every update in the queue
\* is eventually dequeued.
C14_BoundedLossless ==
    /\ [](Len(inputs) <= CHANNEL_SIZE /\ NothingLost)
    /\ [][FullQueueBlocks]_vars
    /\ \A k \in 1 .. (MaxUpdates + 1) :
          (k \in TagsOf(inputs)) ~> (k \in TagsOf(fed))

\* The queue is full and a source task is suspended at its send, holding
\* the update after those in the queue.
C14_Witness ==
    /\ Len(inputs) = CHANNEL_SIZE
    /\ Held # {}
    /\ \A e \in Held : pend[e][1].n = produced

-----------------------------------------------------------------------------
(* SpecSource: one Source Stream (BinanceStream or BitstampStream) and the *)
(* events of its connection attempts and of its transport.                 *)
(* ss.state is the BinanceStreamState / BitstampStreamState, or "Panicked" *)
(* once poll_next has panicked; ss.result is what the last poll_next that  *)
(* returned has returned.  History fields: sessions (connections made),    *)
(* acked (bts:subscription_succeeded was seen on this connection), log     *)
(* (the events handled so far) and emitted (the items yielded, each with   *)
(* the place of its frame in the log and `acked` at that time).            *)

\* What a connection attempt comes to: the socket is open (and, for
\* Bitstamp, the subscribe frame sent); the attempt failed and retry_notify
\* sleeps before the next one; the backoff gave up.
ConnectOutcomes == {"connected", "retry", "gave_up"}

\* What the websocket hands over: a text frame that is a snapshot, one that
\* is bts:request_reconnect, one that is bts:subscription_succeeded, one
\* that is no JSON of the exchange, a Close frame, a ping, pong or binary
\* frame, a transport error, the end of the transport.
TransportEvents ==
    {"data", "reconnect", "subsuccess", "garbage", "close", "other", "error", "end"}

\* A filter that makes an error of the frames that are no text frames.
classify_text_only(kind, ev) ==
    CASE ev = "data" -> "Input"
      [] ev = "reconnect" -> IF kind = 1 THEN "Reconnect" ELSE "Err"
      [] ev = "subsuccess" -> IF kind = 1 THEN "SubSuccess" ELSE "Err"
      [] ev = "garbage" -> "Err"
      [] ev = "close" -> "Err"
      [] ev = "error" -> "Err"
      [] ev = "other" -> "Err"
      [] OTHER -> "None"

\* A decoder that makes an empty snapshot of a text frame it cannot read.
classify_lenient(kind, ev) ==
    CASE ev = "data" -> "Input"
      [] ev = "reconnect" -> IF kind = 1 THEN "Reconnect" ELSE "Input"
      [] ev = "subsuccess" -> IF kind = 1 THEN "SubSuccess" ELSE "Input"
      [] ev = "garbage" -> "Input"
      [] ev = "close" -> "Err"
      [] ev = "error" -> "Err"
      [] ev = "other" -> "Skip"
      [] OTHER -> "None"

\* The filter_map of get_stream_inner and the decoder of the exchange:
\* what the inner stream yields for a transport event.  BinanceInput has
\* no `event` tag, so Bitstamp's control events do not decode for Binance.
classify(kind, ev) ==
    CASE ev = "data" -> "Input"
      [] ev = "reconnect" -> IF kind = 1 THEN "Reconnect" ELSE "Err"
      [] ev = "subsuccess" -> IF kind = 1 THEN "SubSuccess" ELSE "Err"
      [] ev = "garbage" -> "Err"
      [] ev = "close" -> "Err"
      [] ev = "error" -> "Err"
      [] ev = "other" -> "Skip"
      [] OTHER -> "None"

\* Poll::Ready(Some(input.into())): the item is yielded.
on_input(s) ==
    [s EXCEPT !.emitted = Append(@, [id |-> Len(s.log) + 1, acked |-> s.acked]),
              !.result = "Item"]

\* A restart that goes on with the backoff schedule of the connection
\* before, as a stream holding one Backoff for its lifetime would.
restart_same_backoff(s) == [s EXCEPT !.state = "FetchingStream", !.acked = FALSE]

\* self.state = FetchingStream(get_stream_inner(.., self.backoff.clone()));
\* self.poll_next(cx).  get_stream_inner calls backoff() for a new schedule.
restart(s) == [s EXCEPT !.state = "FetchingStream", !.acked = FALSE, !.retries = 0]

\* eprintln!: the line is the last one on the standard error.
eprintln(s, line) == [s EXCEPT !.stderr = line]

\* Poll::Ready(Some(Ok(BitstampInput::Reconnect))).
on_reconnect(s) == restart(eprintln(s, "Reconnect request received, reconnecting"))

\* Poll::Ready(Some(Err(err))) of the inner stream.
on_err(s) == restart(eprintln(s, "Unexpected error in stream, restarting"))

\* A stream that ends when its transport ends.
on_end_stops(s) == [s EXCEPT !.result = "None"]

\* Poll::Ready(None) of the inner stream: "stopped unexpectedly, restarting".
on_end(s) == restart(eprintln(s, "Stream stopped unexpectedly, restarting"))

\* A stream that takes the acknowledgement for a request to reconnect.
on_subsuccess_restarts(s) == restart(s)

\* Poll::Ready(Some(Ok(BitstampInput::SubSuccess))): ignored, poll again.
on_subsuccess(s) == [s EXCEPT !.acked = TRUE]

\* poll_next in state Streaming, for one item of the inner stream.
on_item(s, c) ==
    CASE c = "Input" -> on_input(s)
      [] c = "Reconnect" -> on_reconnect(s)
      [] c = "SubSuccess" -> on_subsuccess(s)
      [] c = "Err" -> on_err(s)
      [] c = "None" -> on_end(s)
      [] OTHER -> s

\* The history of one more event.
logged(s, ev) == [s EXCEPT !.log = Append(@, ev)]

\* BinanceStream::new / BitstampStream::new for either exchange.
InitSource ==
    /\ state = MergeState_new
    /\ item = None
    /\ calc = CalcIdle
    /\ inputs = <<>>
    /\ alive = [e \in Exchanges |-> TRUE]
    /\ pend = [e \in Exchanges |-> None]
    /\ produced = 0
    /\ fed = <<>>
    /\ outs = <<>>
    /\ mpc = "next"
    /\ shared = watch_channel(None)
    /\ conn = ConnIdle
    /\ subs = [s \in Subscribers |-> NoStream]
    /\ ctor = CtorIdle
    /\ dec = DecIdle
    /\ \E kind \in Exchanges :
          ss = [SourceIdle EXCEPT !.kind = kind, !.state = "FetchingStream"]

\* poll_next in state FetchingStream polls get_stream_inner.
Connect ==
    /\ ss.state = "FetchingStream"
    /\ Len(ss.log) < MaxEvents
    /\ \E outcome \in ConnectOutcomes :
          ss' = CASE outcome = "connected" ->
                       [logged(ss, outcome) EXCEPT !.state = "Streaming", !.sessions = @ + 1]
                  [] outcome = "retry" ->
                       [eprintln(logged(ss, outcome), "Error creating connection, retrying")
                            EXCEPT !.result = "Pending", !.retries = @ + 1]
                  [] OTHER ->
                       [logged(ss, outcome) EXCEPT !.state = "Panicked"]
    /\ UNCHANGED <<state, item, calc, ctor, dec, pipeVars>>

\* poll_next in state Streaming polls the inner stream, which has an item.
Receive ==
    /\ ss.state = "Streaming"
    /\ Len(ss.log) < MaxEvents
    /\ \E ev \in TransportEvents :
          ss' = logged(on_item(ss, classify(ss.kind, ev)), ev)
    /\ UNCHANGED <<state, item, calc, ctor, dec, pipeVars>>

\* poll_next in state Streaming polls the inner stream, which has nothing.
Wait ==
    /\ ss.state = "Streaming"
    /\ ss.result # "Pending"
    /\ ss' = [ss EXCEPT !.result = "Pending"]
    /\ UNCHANGED <<state, item, calc, ctor, dec, pipeVars>>

NextSource == Connect \/ Receive \/ Wait

SpecSource == InitSource /\ [][NextSource]_vars

-----------------------------------------------------------------------------
(* Properties of a Source Stream (SpecSource) *)

\* The step handles the transport event ev.
Handles(ev) ==
    /\ ss.state = "Streaming"
    /\ Len(ss'.log) = Len(ss.log) + 1
    /\ ss'.log[Len(ss'.log)] = ev

\* The end of the transport sends the stream back to connecting, yielding
\* nothing.
EndReconnects ==
    Handles("end") => ss'.state = "FetchingStream" /\ ss'.emitted = ss.emitted

\* C15: whatever the transport does, a poll_next that returns returns
\* Pending or an item, never the end of the stream, and the end of the
\* transport moves the stream back to FetchingStream.
C15_NeverEnds == [](ss.result \in {"Pending", "Item"}) /\ [][EndReconnects]_vars

\* The transport ended after an item was yielded; the stream reconnected
\* and yielded another one.
C15_Witness ==
    /\ \E i \in 1 .. Len(ss.log) : ss.log[i] = "end"
    /\ ss.log[Len(ss.log)] = "data"
    /\ Len(ss.emitted) = 2
    /\ ss.sessions = 2

\* The places of the data frames in the first n events, in order.
RECURSIVE DataFrames(_)
DataFrames(n) ==
    IF n = 0 THEN <<>>
    ELSE IF ss.log[n] = "data" THEN Append(DataFrames(n - 1), n) ELSE DataFrames(n - 1)

\* Only a data frame yields an item.
OnlyDataYields ==
    ss'.emitted # ss.emitted => Handles("data") /\ ss'.result = "Item"

\* C16: the items a Source Stream has yielded are the data frames it has
\* received, one item per frame in the order of arrival over all its
\* connections; no other event yields anything, and what the consumer gets
\* from a poll is Pending or an item.
C16_ExactlyDataFrames ==
    /\ []([i \in 1 .. Len(ss.emitted) |-> ss.emitted[i].id] = DataFrames(Len(ss.log)))
    /\ [](ss.result \in {"Pending", "Item"})
    /\ [][OnlyDataYields]_vars

\* A text frame, then a Close frame, then a reconnect and another text
\* frame: two items.
C16_Witness ==
    /\ ss.log = <<"connected", "data", "close", "connected", "data">>
    /\ Len(ss.emitted) = 2
    /\ ss.result = "Item"

\* C17: a Source Stream panics only when the backoff gives up on its very
\* first connection: once a connection was made it never panics.
C17_OnlyFirstFatal == ss.state = "Panicked" => ss.sessions = 0

\* C18 as stated: an item of a Bitstamp stream is yielded only after
\* bts:subscription_succeeded was seen on its connection.
C18_AckBeforeData ==
    ss.kind = 1 => \A i \in 1 .. Len(ss.emitted) : ss.emitted[i].acked

\* A connection that is made is Streaming at once.
ConnectedStreams ==
    ss.state = "FetchingStream" /\ ss'.state # "FetchingStream" /\ ss'.state # "Panicked"
        => ss'.state = "Streaming" /\ ~ss'.acked

\* The acknowledgement yields nothing and leaves the stream Streaming.
AckIgnored ==
    ss.kind = 1 /\ Handles("subsuccess") =>
        /\ ss'.state = "Streaming"
        /\ ss'.emitted = ss.emitted
        /\ ss'.result = ss.result

\* A data frame is yielded whether or not the acknowledgement was seen.
DataYields ==
    Handles("data") => Len(ss'.emitted) = Len(ss.emitted) + 1

\* C18, amended: a Bitstamp stream is Streaming as soon as its connection
\* is made and the subscribe frame sent; bts:subscription_succeeded yields
\* nothing and leaves it Streaming; a data frame is yielded whether it
\* arrives before or after the acknowledgement.
C18_AckProducesNothing == [][ConnectedStreams /\ AckIgnored /\ DataYields]_vars

\* A Bitstamp stream yielded a data frame before the acknowledgement and
\* another one after it.
C18_Witness ==
    /\ ss.kind = 1
    /\ ss.log = <<"connected", "data", "subsuccess", "data">>
    /\ Len(ss.emitted) = 2
    /\ ~ss.emitted[1].acked
    /\ ss.emitted[2].acked

-----------------------------------------------------------------------------
(* SpecNew: one construction of an InputUpdate, by InputUpdate::new or by  *)
(* the Into<InputUpdate> of an exchange's decoded frame, in a build with   *)
(* debug assertions ("debug") or without them ("release")                  *)

Builds == {"debug", "release"}

\* The callers of InputUpdate::new: a direct call, which names the
\* exchange, or the Into<InputUpdate> of an exchange's decoded frame.
Vias == {"new", "BinanceInput", "BitstampInput"}

\* Any sequences of Levels, sorted or not, that fit the ArrayVec.
AnySeqs(L, n) == UNION {[1 .. k -> L] : k \in 0 .. n}

\* The Levels the constructions are tried on.
CtorLevels == LevelsOf(0) \cup LevelsOf(1)

\* A panic with its message.
Panic(message) == [outcome |-> "panic", message |-> message, update |-> None]

\* A value returned.
Returned(u) == [outcome |-> "ok", message |-> "", update |-> Some(u)]

\* InputUpdate::new with the second assertion comparing by cmp_ask.
InputUpdate_try_new_same_cmp(build, exchange, asks, bids) ==
    IF build = "debug" /\ ~is_sorted(asks, "ask") THEN Panic("Unsorted asks")
    ELSE IF build = "debug" /\ ~is_sorted(bids, "ask") THEN Panic("Unsorted bids")
    ELSE Returned(InputUpdate_new(exchange, asks, bids))

\* InputUpdate::new with its debug_assert!s, which only a build with debug
\* assertions evaluates.
InputUpdate_try_new(build, exchange, asks, bids) ==
    IF build = "debug" /\ ~is_sorted(asks, "ask") THEN Panic("Unsorted asks")
    ELSE IF build = "debug" /\ ~is_sorted(bids, "bid") THEN Panic("Unsorted bids")
    ELSE Returned(InputUpdate_new(exchange, asks, bids))

\* Into<InputUpdate> for BinanceInput.
BinanceInput_into(build, asks, bids) == InputUpdate_try_new(build, 0, asks, bids)

\* Into<InputUpdate> for BitstampInput::Data.
BitstampInput_into(build, asks, bids) == InputUpdate_try_new(build, 1, asks, bids)

InitNew ==
    /\ state = MergeState_new
    /\ item = None
    /\ calc = CalcIdle
    /\ inputs = <<>>
    /\ alive = [e \in Exchanges |-> TRUE]
    /\ pend = [e \in Exchanges |-> None]
    /\ produced = 0
    /\ fed = <<>>
    /\ outs = <<>>
    /\ mpc = "next"
    /\ shared = watch_channel(None)
    /\ conn = ConnIdle
    /\ subs = [s \in Subscribers |-> NoStream]
    /\ ss = SourceIdle
    /\ dec = DecIdle
    /\ \E build \in Builds, via \in Vias, exchange \in Exchanges :
         \E asks \in AnySeqs(CtorLevels, TOP_LEVELS), bids \in AnySeqs(CtorLevels, TOP_LEVELS) :
            /\ via = "BinanceInput" => exchange = 0
            /\ via = "BitstampInput" => exchange = 1
            /\ ctor = [build |-> build, via |-> via, exchange |-> exchange,
                       asks |-> asks, bids |-> bids, output |-> None]

\* The call returns or panics.
Construct ==
    /\ ctor.via # "idle"
    /\ ctor.output = None
    /\ ctor' = [ctor EXCEPT !.output =
                  Some(CASE ctor.via = "BinanceInput" -> BinanceInput_into(ctor.build, ctor.asks, ctor.bids)
                         [] ctor.via = "BitstampInput" -> BitstampInput_into(ctor.build, ctor.asks, ctor.bids)
                         [] OTHER -> InputUpdate_try_new(ctor.build, ctor.exchange, ctor.asks, ctor.bids))]
    /\ UNCHANGED <<state, item, calc, ss, dec, pipeVars>>

NextNew == Construct

SpecNew == InitNew /\ [][NextNew]_vars

\* The update a construction returned is sorted on both sides.
ReturnedSorted(r) ==
    r.outcome = "ok" => is_sorted(r.update[1].asks, "ask") /\ is_sorted(r.update[1].bids, "bid")

\* Unsorted asks fail with 'Unsorted asks', unsorted bids with 'Unsorted
\* bids'.
UnsortedFails(r) ==
    /\ ~is_sorted(ctor.asks, "ask") => r = Panic("Unsorted asks")
    /\ is_sorted(ctor.asks, "ask") /\ ~is_sorted(ctor.bids, "bid") => r = Panic("Unsorted bids")

\* What is given is what is constructed, for the caller's exchange.
ReturnsGiven(r) ==
    r = Returned([exchange |-> IF ctor.via = "BinanceInput" THEN 0
                               ELSE IF ctor.via = "BitstampInput" THEN 1 ELSE ctor.exchange,
                  asks |-> ctor.asks, bids |-> ctor.bids])

\* C19 as stated: every constructed InputUpdate is sorted on both sides,
\* and InputUpdate::new, called directly or for a decoded frame, fails with
\* 'Unsorted asks' or 'Unsorted bids' on unsorted input.
C19_AlwaysChecked ==
    ctor.output # None => ReturnedSorted(ctor.output[1]) /\ UnsortedFails(ctor.output[1])

\* C19, amended: in a build with debug assertions InputUpdate::new, called
\* directly or for a decoded frame, fails with 'Unsorted asks' on unsorted
\* asks and with 'Unsorted bids' on sorted asks and unsorted bids, so every
\* InputUpdate it constructs is sorted; in a release build it checks
\* nothing and constructs the update from whatever it is given.
C19_CheckedInDebug ==
    ctor.output # None =>
        /\ ctor.build = "debug" =>
              /\ ReturnedSorted(ctor.output[1])
              /\ UnsortedFails(ctor.output[1])
              /\ is_sorted(ctor.asks, "ask") /\ is_sorted(ctor.bids, "bid") => ReturnsGiven(ctor.output[1])
        /\ ctor.build = "release" => ReturnsGiven(ctor.output[1])

\* test_unsorted_bids in a debug build: no asks, bids with the lower price
\* first, the panic 'Unsorted bids'.
C19_Witness ==
    /\ ctor.build = "debug"
    /\ ctor.asks = <<>>
    /\ ctor.bids = <<Level(1, 1), Level(2, 1)>>
    /\ ctor.output = Some(Panic("Unsorted bids"))

-----------------------------------------------------------------------------
(* Idempotence of the Merger's update (SpecMerge) *)

\* The InputUpdate of exchange e that the MergeState holds: update stores
\* the asks and bids of an update as they are, so after an update of e was
\* fed this is that update.
Held_update(e) == InputUpdate_new(e, state.asks[e], state.bids[e])

\* C20: every reachable MergeState is the state after its last InputUpdate
\* was fed, from some reachable state, a first time; feeding that update a
\* second time leaves the MergeState as it is, and the summary after the
\* second feeding equals the summary after the first.
C20_FeedTwice ==
    \A e \in Exchanges :
        /\ update(state, Held_update(e)) = state
        /\ summary(update(state, Held_update(e))) = summary(state)

\* Both exchanges were fed updates that have asks and bids.
C20_Witness ==
    \A e \in Exchanges : state.asks[e] # <<>> /\ state.bids[e] # <<>>

-----------------------------------------------------------------------------
(* SpecDecode: one call of DeserializeArrayVec's visit_seq, of             *)
(* FinitePositiveF64::try_from or of Into<Summary> for InputUpdate, on any *)
(* argument                                                                *)

\* Result::Ok, Result::Err and a panic of the call.
Ok(v) == [outcome |-> "ok", message |-> "", value |-> Some(v)]
Err(message) == [outcome |-> "err", message |-> message, value |-> None]
Panicked(message) == [outcome |-> "panic", message |-> message, value |-> None]

\* An f64: its class, its sign bit and, when finite, its magnitude.
F64(class, negative, magnitude) ==
    [class |-> class, negative |-> negative, magnitude |-> magnitude]

\* The magnitudes of the finite f64s tried: zero and the prices.
Magnitudes == {0} \cup Prices

\* The f64s try_from is tried on: NaN and the infinities with either sign
\* bit, both zeroes, and finite values of either sign.
F64s ==
    {F64(c, n, 0) : c \in {"nan", "inf"}, n \in BOOLEAN}
        \cup {F64("finite", n, m) : n \in BOOLEAN, m \in Magnitudes}

\* f64::is_finite.
is_finite(value) == value.class = "finite"

\* The sign tested by comparison with zero (`value >= 0.0`), which holds
\* of -0.0.
is_sign_positive_by_value(value) == ~(value.negative /\ value.magnitude > 0)

\* f64::is_sign_positive: the sign bit is clear.
is_sign_positive(value) == ~value.negative

\* TryFrom<f64> for FinitePositiveF64.
FinitePositiveF64_try_from(value) ==
    IF ~is_finite(value)
    THEN Err("Can't construct FinitePositiveF64 from non finite f64")
    ELSE IF ~is_sign_positive(value)
         THEN Err("Can't construct FinitePositiveF64 from negative f64")
         ELSE Ok(value)

\* The entries of the JSON arrays decoded: 2-tuples [price, amount] of
\* decimal strings, of which the one with the price "-1" is not a Level
\* (test_deserialize of finite_positive_f64.rs: "-3.4" is an error).
JsonValues == {Level(p, 1) : p \in {-1, 1, 2}}

\* JSON arrays of up to two entries more than the ArrayVec holds.
JsonArrays == AnySeqs(JsonValues, TOP_LEVELS + 2)

\* Deserialize for Level (derived) over Deserialize for FinitePositiveF64.
Level_deserialize(value) ==
    IF value.price < 0 \/ value.amount < 0 THEN Err("invalid value") ELSE Ok(value)

\* SeqAccess::next_element::<Level> with k - 1 entries consumed: Ok(None)
\* at the end of the array, else the entry decoded as a Level.
next_element(seq, k) ==
    IF k > Len(seq) THEN Ok(None)
    ELSE LET elem == Level_deserialize(seq[k])
         IN  IF elem.outcome = "err" THEN elem ELSE Ok(Some(elem.value[1]))

\* What visit_seq returns, with the number of entries it consumed.
Visited(result, consumed) == [result |-> result, consumed |-> consumed]

\* The first loop of visit_seq (lines 36-38) with k - 1 entries consumed.
\* The tuple (elems.is_full(), seq.next_element()?) is built before it is
\* matched, so the next entry is decoded as a Level whether or not elems
\* is full, and `?` returns its error.  When the pattern does not match,
\* the second loop (line 40) consumes what is left as IgnoredAny, which
\* accepts any value.
RECURSIVE visit_loop(_, _, _, _)
visit_loop(elems, seq, k, capacity) ==
    LET is_full == Len(elems) = capacity
        next == next_element(seq, k)
    IN  IF next.outcome = "err" THEN Visited(next, k)
        ELSE IF ~is_full /\ next.value[1] # None
             THEN visit_loop(Append(elems, next.value[1][1]), seq, k + 1, capacity)
             ELSE Visited(Ok(elems), Len(seq))

\* SeqVisitor::visit_seq for ArrayVec<[Level; TOP_LEVELS]>.
visit_seq(seq) == visit_loop(<<>>, seq, 1, TOP_LEVELS)

\* Into<orderbook::Summary> for InputUpdate: the spread is computed first,
\* indexing both Vecs at 0.
InputUpdate_into_summary(u) ==
    LET asks == [i \in 1 .. Len(u.asks) |-> into_orderbook_level(u.asks[i], u.exchange)]
        bids == [i \in 1 .. Len(u.bids) |-> into_orderbook_level(u.bids[i], u.exchange)]
    IN  IF asks = <<>> \/ bids = <<>>
        THEN Panicked("index out of bounds: the len is 0 but the index is 0")
        ELSE Ok([spread |-> asks[1].price - bids[1].price, asks |-> asks, bids |-> bids])

InitDecode ==
    /\ state = MergeState_new
    /\ item = None
    /\ calc = CalcIdle
    /\ inputs = <<>>
    /\ alive = [e \in Exchanges |-> TRUE]
    /\ pend = [e \in Exchanges |-> None]
    /\ produced = 0
    /\ fed = <<>>
    /\ outs = <<>>
    /\ mpc = "next"
    /\ shared = watch_channel(None)
    /\ conn = ConnIdle
    /\ subs = [s \in Subscribers |-> NoStream]
    /\ ss = SourceIdle
    /\ ctor = CtorIdle
    /\ \/ \E seq \in JsonArrays : dec = [op |-> "visit_seq", arg |-> seq, output |-> None]
       \/ \E value \in F64s : dec = [op |-> "try_from", arg |-> value, output |-> None]
       \/ \E u \in InputUpdates : dec = [op |-> "into_summary", arg |-> u, output |-> None]

\* visit_seq returns.
VisitSeq ==
    /\ dec.op = "visit_seq"
    /\ dec.output = None
    /\ dec' = [dec EXCEPT !.output = Some(visit_seq(dec.arg))]
    /\ UNCHANGED <<state, item, calc, ss, ctor, pipeVars>>

\* try_from returns.
TryFrom ==
    /\ dec.op = "try_from"
    /\ dec.output = None
    /\ dec' = [dec EXCEPT !.output = Some(FinitePositiveF64_try_from(dec.arg))]
    /\ UNCHANGED <<state, item, calc, ss, ctor, pipeVars>>

\* into returns or panics.
IntoSummary ==
    /\ dec.op = "into_summary"
    /\ dec.output = None
    /\ dec' = [dec EXCEPT !.output = Some(InputUpdate_into_summary(dec.arg))]
    /\ UNCHANGED <<state, item, calc, ss, ctor, pipeVars>>

NextDecode == VisitSeq \/ TryFrom \/ IntoSummary

SpecDecode == InitDecode /\ [][NextDecode]_vars

\* The first min(length, TOP_LEVELS) entries of a JSON array.
Prefix(seq) == SubSeq(seq, 1, IF Len(seq) < TOP_LEVELS THEN Len(seq) ELSE TOP_LEVELS)

\* C21: decoding a JSON array of levels yields exactly its first
\* min(length, TOP_LEVELS) entries in their order, having consumed every
\* entry, and the entries after the first TOP_LEVELS do not influence the
\* outcome: an array that agrees with the decoded one on the first
\* TOP_LEVELS entries decodes to the same result.
C21_RemainderIgnored ==
    dec.op = "visit_seq" /\ dec.output # None =>
        /\ dec.output[1].result.outcome = "ok" =>
              /\ dec.output[1].result = Ok(Prefix(dec.arg))
              /\ dec.output[1].consumed = Len(dec.arg)
        /\ \A other \in JsonArrays :
              Prefix(other) = Prefix(dec.arg) =>
                  visit_seq(other).result = dec.output[1].result

\* The f64s C22 names.
NaNs == {F64("nan", n, 0) : n \in BOOLEAN}
Infinities == {F64("inf", n, 0) : n \in BOOLEAN}
NegativeZero == F64("finite", TRUE, 0)
PositiveZero == F64("finite", FALSE, 0)
NegativeFinite == {F64("finite", TRUE, m) : m \in Magnitudes \ {0}}
PositiveFinite == {F64("finite", FALSE, m) : m \in Magnitudes \ {0}}

\* C22: FinitePositiveF64::try_from fails for every negative value, for
\* -0.0, for NaN and for both infinities, and succeeds, returning the
\* value, for +0.0 and for every finite positive value; so a constructed
\* value is finite and is +0.0 or positive.
C22_TryFromRejects ==
    dec.op = "try_from" /\ dec.output # None =>
        /\ dec.arg \in NegativeFinite \cup {NegativeZero} \cup NaNs \cup Infinities =>
              dec.output[1].outcome = "err"
        /\ dec.arg \in {PositiveZero} \cup PositiveFinite => dec.output[1] = Ok(dec.arg)
        /\ dec.output[1].outcome = "ok" =>
              dec.output[1].value[1] \in {PositiveZero} \cup PositiveFinite

\* test_try_from: -0.0 is rejected as a negative f64.
C22_Witness ==
    /\ dec.op = "try_from"
    /\ dec.arg = NegativeZero
    /\ dec.output = Some(Err("Can't construct FinitePositiveF64 from negative f64"))

\* C28: converting an InputUpdate into a Summary succeeds for every
\* InputUpdate and yields its asks and bids in their order, each with the
\* update's exchange name, with the spread asks[0].price - bids[0].price
\* when both sides are non-empty and 0 when a side is empty.
C28_AlwaysConverts ==
    dec.op = "into_summary" /\ dec.output # None =>
        LET u == dec.arg
            asks == [i \in 1 .. Len(u.asks) |-> into_orderbook_level(u.asks[i], u.exchange)]
            bids == [i \in 1 .. Len(u.bids) |-> into_orderbook_level(u.bids[i], u.exchange)]
        IN  dec.output[1] =
                Ok([spread |-> IF asks = <<>> \/ bids = <<>> THEN 0
                               ELSE asks[1].price - bids[1].price,
                    asks |-> asks, bids |-> bids])

-----------------------------------------------------------------------------
(* SpecUpdate: the loop of merge with its history: dec holds the           *)
(* InputUpdate the last iteration received and the MergeState before it    *)

\* The InputUpdates of exchange e the loop is fed: any sorted asks, and
\* bids that are empty or the exchange's best bid.
FrameUpdatesOf(e) ==
    {InputUpdate_new(e, a, b) :
        a \in SortedSeqs(LevelsOf(e), "ask", TOP_LEVELS),
        b \in {<<>>, <<Level(2, 1)>>}}

FrameUpdates == UNION {FrameUpdatesOf(e) : e \in Exchanges}

InitUpdate ==
    /\ state = MergeState_new
    /\ item = None
    /\ calc = CalcIdle
    /\ inputs = <<>>
    /\ alive = [e \in Exchanges |-> TRUE]
    /\ pend = [e \in Exchanges |-> None]
    /\ produced = 0
    /\ fed = <<>>
    /\ outs = <<>>
    /\ mpc = "next"
    /\ shared = watch_channel(None)
    /\ conn = ConnIdle
    /\ subs = [s \in Subscribers |-> NoStream]
    /\ ss = SourceIdle
    /\ ctor = CtorIdle
    /\ dec = [op |-> "update", arg |-> <<>>, output |-> None]

\* One iteration of the loop of merge (lines 17-18): state.update(input).
UpdateStep ==
    \E input \in FrameUpdates :
        /\ dec.op = "update"
        /\ state' = update(state, input)
        /\ dec' = [op |-> "update", arg |-> input, output |-> Some(state)]
        /\ UNCHANGED <<item, calc, ss, ctor, pipeVars>>

NextUpdate == UpdateStep

SpecUpdate == InitUpdate /\ [][NextUpdate]_vars

\* C23: after MergeState::update for an InputUpdate of exchange e the ask
\* snapshot and the bid snapshot of e are the update's sequences, nothing
\* else, and the snapshots of every other exchange are what they were
\* before.
C23_UpdateFrame ==
    dec.op = "update" /\ dec.output # None =>
        LET input == dec.arg
            before == dec.output[1]
        IN  /\ state.asks[input.exchange] = input.asks
            /\ state.bids[input.exchange] = input.bids
            /\ \A e \in Exchanges \ {input.exchange} :
                  state.asks[e] = before.asks[e] /\ state.bids[e] = before.bids[e]

\* An exchange that held TOP_LEVELS asks and a bid was updated with no asks
\* and no bids, while the other exchange holds asks and a bid.
C23_Witness ==
    /\ dec.op = "update"
    /\ dec.output # None
    /\ dec.arg.asks = <<>>
    /\ dec.arg.bids = <<>>
    /\ Len(dec.output[1].asks[dec.arg.exchange]) = TOP_LEVELS
    /\ dec.output[1].bids[dec.arg.exchange] # <<>>
    /\ \E e \in Exchanges \ {dec.arg.exchange} : state.asks[e] # <<>> /\ state.bids[e] # <<>>

-----------------------------------------------------------------------------
(* SpecReconnect: the server with no client, the state of each Source      *)
(* Stream (FetchingStream or Streaming) followed through its reconnections *)

InitReconnect ==
    /\ state = MergeState_new
    /\ item = None
    /\ calc = CalcIdle
    /\ inputs = <<>>
    /\ alive = [e \in Exchanges |-> TRUE]
    /\ pend = [e \in Exchanges |-> None]
    /\ produced = 0
    /\ fed = <<>>
    /\ outs = <<>>
    /\ mpc = "next"
    /\ shared = watch_channel(None)
    /\ subs = [s \in Subscribers |-> [NoStream EXCEPT !.st = "absent"]]
    /\ ss = SourceIdle
    /\ ctor = CtorIdle
    /\ dec = DecIdle
    /\ conn = [e \in Exchanges |-> "FetchingStream"]

\* poll_next in state FetchingStream: get_stream_inner is ready with the
\* stream, the state becomes Streaming.
SourceConnects(e) ==
    /\ alive[e]
    /\ pend[e] = None
    /\ conn[e] = "FetchingStream"
    /\ conn' = [conn EXCEPT ![e] = "Streaming"]
    /\ UNCHANGED <<state, item, calc, ss, ctor, dec, inputs, alive, pend, produced, fed, outs, mpc, shared, subs>>

\* A disconnection that also empties the exchange's snapshot in the
\* MergeState.
SourceDisconnects_clears(e) ==
    /\ alive[e]
    /\ pend[e] = None
    /\ conn[e] = "Streaming"
    /\ conn' = [conn EXCEPT ![e] = "FetchingStream"]
    /\ state' = update(state, InputUpdate_new(e, <<>>, <<>>))
    /\ UNCHANGED <<item, calc, ss, ctor, dec, inputs, alive, pend, produced, fed, outs, mpc, shared, subs>>

\* poll_next in state Streaming: the inner stream is ready with an error or
\* has ended; the state becomes FetchingStream with a new get_stream_inner
\* and nothing is yielded.
SourceDisconnects(e) ==
    /\ alive[e]
    /\ pend[e] = None
    /\ conn[e] = "Streaming"
    /\ conn' = [conn EXCEPT ![e] = "FetchingStream"]
    /\ UNCHANGED <<state, item, calc, ss, ctor, dec, inputs, alive, pend, produced, fed, outs, mpc, shared, subs>>

\* poll_next in state Streaming: the inner stream is ready with an input.
StreamYields(e) == conn[e] = "Streaming" /\ SourceNext(e)

\* poll_next in state FetchingStream: get_stream_inner panics.
ConnectGivesUp(e) == conn[e] = "FetchingStream" /\ SourceDies(e)

NextReconnect ==
    \/ \E e \in Exchanges :
          \/ SourceConnects(e)
          \/ SourceDisconnects(e)
          \/ StreamYields(e)
          \/ SourceSend(e)
          \/ ConnectGivesUp(e)
    \/ MergerNext
    \/ MergerSend
    \/ MergerEnds

SpecReconnect == InitReconnect /\ [][NextReconnect]_vars

\* The snapshot last dequeued from exchange e, empty if there was none.
LastDelivered(e) ==
    IF LastFrom(Len(fed), e) = 0
    THEN [asks |-> <<>>, bids |-> <<>>]
    ELSE [asks |-> fed[LastFrom(Len(fed), e)].asks, bids |-> fed[LastFrom(Len(fed), e)].bids]

\* The levels of exchange e in a summary side, in their order.
OfExchange(olevels, e) ==
    levels_of(SelectSeq(olevels, LAMBDA l : l.exchange = to_string(e)))

\* The MergeState holds for e what was last dequeued from e.
SnapshotIsLastDelivered(e) ==
    state.asks[e] = LastDelivered(e).asks /\ state.bids[e] = LastDelivered(e).bids

\* A summary yielded holds the levels last dequeued from e, also while e
\* is reconnecting or after its task died.
SummaryKeeps(e) ==
    item # None =>
        /\ OfExchange(item[1].summary.asks, e) = LastDelivered(e).asks
        /\ OfExchange(item[1].summary.bids, e) = LastDelivered(e).bids

\* The MergeState changes only in a step that dequeues an InputUpdate, and
\* then by update.
ChangesOnlyOnDequeue ==
    state' # state =>
        /\ mpc = "next"
        /\ inputs # <<>>
        /\ inputs' = rest(inputs)
        /\ state' = update(state, recv(inputs))

\* C24: the MergeState is empty until the first InputUpdate is dequeued and
\* changes only when the Merger dequeues one; whether a Source Stream is
\* streaming, reconnecting or dead, the snapshot of its exchange is the
\* one last dequeued from it and every summary yielded contains its levels.
C24_OnlyDequeueChanges ==
    /\ [](fed = <<>> => state = MergeState_new)
    /\ [](\A e \in Exchanges : SnapshotIsLastDelivered(e) /\ SummaryKeeps(e))
    /\ [][ChangesOnlyOnDequeue]_vars

\* An exchange is reconnecting after it delivered a snapshot with levels,
\* and the summary yielded for a later update of the other exchange is
\* waiting to be pushed.
C24_Witness ==
    \E e \in Exchanges :
        /\ alive[e]
        /\ conn[e] = "FetchingStream"
        /\ LastFrom(Len(fed), e) # 0
        /\ state.asks[e] # <<>>
        /\ item # None
        /\ fed[Len(fed)].exchange # e
        /\ LastFrom(Len(fed), e) < Len(fed)

-----------------------------------------------------------------------------
(* The frames that end a session and the frames that are ignored           *)
(* (SpecSource)                                                            *)

\* The step is a poll_next in state Streaming that handles transport event
\* ev.
Receives(ev) == ss.state = "Streaming" /\ ss'.log = Append(ss.log, ev)

\* What ends a session: a text frame that does not decode (for Binance
\* Bitstamp's control events are such frames), a Close frame, a transport
\* error, the end of the transport and, for Bitstamp, bts:request_reconnect.
SessionEnders(kind) ==
    {"garbage", "close", "error", "end"}
        \cup (IF kind = 1 THEN {"reconnect"} ELSE {"reconnect", "subsuccess"})

\* The stream is back in FetchingStream with a new connection attempt whose
\* backoff schedule is unused; it yielded nothing and did not end.
Reconnecting(ev) ==
    Receives(ev) =>
        /\ ss'.state = "FetchingStream"
        /\ ss'.retries = 0
        /\ ss'.emitted = ss.emitted
        /\ ss'.sessions = ss.sessions
        /\ ss'.result # "None"
        /\ ev = "reconnect" /\ ss.kind = 1 =>
              ss'.stderr = "Reconnect request received, reconnecting"

\* C25: while a session is Streaming, a text frame that fails to decode, a
\* Close frame, a transport error, the end of the transport and, for
\* Bitstamp, a bts:request_reconnect event each move the stream to
\* FetchingStream with a new connection attempt on a fresh backoff
\* schedule; the reconnect request is reported as a request, not as an
\* error.
C25_Reconnects == [][\A ev \in SessionEnders(ss.kind) : Reconnecting(ev)]_vars

\* Bitstamp: the first connection needed a retry, then the exchange asked
\* for a reconnect; the new attempt has used none of its schedule.
C25_Witness ==
    /\ ss.kind = 1
    /\ ss.log = <<"retry", "connected", "reconnect">>
    /\ ss.state = "FetchingStream"
    /\ ss.retries = 0
    /\ ss.stderr = "Reconnect request received, reconnecting"

\* What is ignored: ping, pong and binary frames and, for Bitstamp,
\* bts:subscription_succeeded.
IgnoredFrames(kind) == {"other"} \cup (IF kind = 1 THEN {"subsuccess"} ELSE {})

\* The stream stays in Streaming on the connection it has, yields nothing
\* and reports nothing.
StaysStreaming(ev) ==
    Receives(ev) =>
        /\ ss'.state = "Streaming"
        /\ ss'.sessions = ss.sessions
        /\ ss'.retries = ss.retries
        /\ ss'.emitted = ss.emitted
        /\ ss'.stderr = ss.stderr

\* C26: a ping, pong or binary frame and, for Bitstamp, the event
\* bts:subscription_succeeded, received while Streaming, leave the stream
\* in Streaming on the same connection and yield no InputUpdate.
C26_IgnoredFrames == [][\A ev \in IgnoredFrames(ss.kind) : StaysStreaming(ev)]_vars

\* Bitstamp answered the subscription after a ping: one connection, still
\* Streaming, nothing yielded.
C26_Witness ==
    /\ ss.kind = 1
    /\ ss.log = <<"connected", "other", "subsuccess">>
    /\ ss.state = "Streaming"
    /\ ss.sessions = 1
    /\ ss.emitted = <<>>

-----------------------------------------------------------------------------
(* SpecClosure: SpecFanIn with the merge task also polled when the fan-in  *)
(* closes (dropping the last Sender wakes the Receiver)                    *)

MergerWoken == MergerRuns /\ WF_vars(MergerEnds)

SpecClosure == InitFanIn /\ [][NextFanIn]_vars /\ MergerWoken

\* Every Sender of the fan-in is dropped.
AllDropped == \A e \in Exchanges : ~alive[e]

\* The merge stream has ended only with every Sender dropped, the queue
\* empty, every update that was yielded by a source dequeued and one
\* summary yielded for each.
EndedDrained ==
    mpc = "done" =>
        /\ AllDropped
        /\ inputs = <<>>
        /\ Len(fed) = produced
        /\ Len(outs) = Len(fed)
        /\ item = None

\* The merge stream ends in a step that finds the queue empty and every
\* Sender dropped.
EndsWhenClosed == mpc # "done" /\ mpc' = "done" => AllDropped /\ inputs = <<>>

\* C27: the merge stream never ends while a Sender of the fan-in is alive;
\* once every Sender is dropped the Merger dequeues every update still in
\* the queue, yields one summary for each, and then its stream ends.
C27_ClosureDrains ==
    /\ [](EndedDrained)
    /\ [][EndsWhenClosed]_vars
    /\ AllDropped ~> (mpc = "done")

\* The stream ended after every update the sources were let to yield went
\* through the queue and got its summary.
C27_Witness ==
    /\ mpc = "done"
    /\ Len(fed) = MaxUpdates + 1
    /\ Len(outs) = Len(fed)

-----------------------------------------------------------------------------
(* SpecRelease: a fresh MergeState fed the InputUpdates a release build    *)
(* constructs, sorted or not                                               *)

\* The snapshots of exchange e tried: asks and bids in any order, together
\* at most one level more than one side holds.
ReleaseSnapshotsOf(e) ==
    {ab \in AnySeqs(LevelsOf(e), TOP_LEVELS) \X AnySeqs(LevelsOf(e), TOP_LEVELS) :
        Len(ab[1]) + Len(ab[2]) <= TOP_LEVELS + 1}

\* One iteration of the loop of merge in a release build: the update
\* InputUpdate::new returned, whatever its order, is stored.
FeedRelease ==
    \E e \in Exchanges :
        \E ab \in ReleaseSnapshotsOf(e) :
            LET r == InputUpdate_try_new("release", e, ab[1], ab[2])
            IN  /\ r.outcome = "ok"
                /\ state' = update(state, r.update[1])
                /\ UNCHANGED <<item, calc, ss, ctor, dec, pipeVars>>

NextRelease == FeedRelease

SpecRelease == InitMerge /\ [][NextRelease]_vars

\* C29: in a release build, where snapshots that are not sorted are
\* accepted, the summary after any sequence of updates still has its asks
\* sorted by cmp_ask, its bids sorted by cmp_bid, at most
\* TOP_LEVELS x |Exchange| levels on each side, and the spread of its best
\* ask and best bid, 0 when a side is empty.
C29_ReleaseInvariants ==
    LET s == summary(state)
    IN  /\ is_sorted(levels_of(s.asks), "ask")
        /\ is_sorted(levels_of(s.bids), "bid")
        /\ Len(s.asks) <= TOP_LEVELS * VARIANT_COUNT
        /\ Len(s.bids) <= TOP_LEVELS * VARIANT_COUNT
        /\ s.spread = IF s.asks = <<>> \/ s.bids = <<>> THEN 0
                      ELSE s.asks[1].price - s.bids[1].price

\* The MergeState holds unsorted asks of the first exchange and unsorted
\* bids of the second.
C29_Witness ==
    /\ ~is_sorted(state.asks[0], "ask")
    /\ ~is_sorted(state.bids[1], "bid")
    /\ state.asks[1] # <<>>
    /\ state.bids[0] # <<>>

-----------------------------------------------------------------------------
(* The watch cell of the latest summary (SpecFair: the server with one     *)
(* client)                                                                 *)

\* The k-th summary the merge stream yielded, as the merge task pushes it;
\* None for k = 0.
Pushed(k) == IF k = 0 THEN None ELSE Some([seq |-> k, summary |-> outs[k]])

\* The cell holds the last summary pushed: the last one yielded, or the
\* one before it while the merge task is between the yield and its send.
CellHoldsLatest ==
    shared.value = Pushed(IF mpc = "send" THEN Len(outs) - 1 ELSE Len(outs))

\* The value of the cell changes only in the send of the merge task, to the
\* item the task holds, and never to None.
OnlyMergerWrites ==
    shared'.value # shared.value =>
        /\ mpc = "send"
        /\ mpc' = "next"
        /\ shared'.value = item
        /\ shared'.value # None

\* C30: the cell is empty until the Merger pushes its first summary; after
\* the Merger yielded and pushed k >= 1 summaries the cell holds the k-th;
\* only the send of the merge task changes the cell, and a cell that holds
\* a summary never becomes empty again.
C30_CellHoldsLatest ==
    /\ [](CellHoldsLatest)
    /\ [][OnlyMergerWrites]_vars
    /\ [][shared.value # None => shared'.value # None]_vars

\* The merge task pushed its second summary, and the client was delivered
\* it from the cell.
C30_Witness ==
    /\ Len(outs) = 2
    /\ mpc = "next"
    /\ shared.value = Pushed(2)
    /\ subs["s1"].got = shared.value

-----------------------------------------------------------------------------
(* SpecWatch: the Aggregator and its WatchStreams over a cell whose Sender *)
(* is any user of the library: Aggregator::new takes any                   *)
(* Receiver<Option<Summary>>, so the Sender may send None as well as Some  *)

\* The values a Sender of Option<Summary> can send as its k-th.
CellValues(k) ==
    {None, Some([seq |-> k, summary |-> summary(update(MergeState_new, UpdateOf(0)))])}

\* Sender::send(value) by the holder of the Sender.
CellSend ==
    /\ shared.version < MaxUpdates
    /\ \E value \in CellValues(shared.version + 1) :
          shared' = send(shared, value)
    /\ subs' = notify_waiters(subs)
    /\ UNCHANGED <<state, item, calc, ss, ctor, dec, conn, inputs, alive, pend, produced, fed, outs, mpc>>

NextWatch ==
    \/ CellSend
    \/ \E s \in Subscribers : BookSummary(s) \/ PollChanged(s) \/ PollBorrow(s)

SpecWatch == Init /\ [][NextWatch]_vars /\ SubscriberScheduled

\* A stream whose poll_next returned Pending has its waker registered with
\* the cell: the task is woken (to be polled) or waits with its waker.
WakerRegistered(s) ==
    subs[s].st = "open" /\ subs[s].fpc = "changed" /\ ~subs[s].woken => subs[s].waker

\* C31: whenever poll_next returns Pending the future it holds has been
\* polled with the task's waker, so a later push polls the subscriber
\* again; a subscriber that saw a changed cell holding None is delivered
\* the next value that is Some.
C31_NoLostWakeup ==
    /\ [](\A s \in Subscribers : WakerRegistered(s))
    /\ \A s \in Subscribers :
          (subs[s].st = "open" /\ shared.value # None) ~> (subs[s].got = shared.value)

\* In the server of examples/server.rs, whose Merger sends Some only, a
\* stream that returned Pending has its waker registered.
ServerWakerRegistered == \A s \in Subscribers : WakerRegistered(s)

-----------------------------------------------------------------------------
(* Nothing is evicted from a summary (SpecMerge) *)

\* A merged side is a permutation of the levels of the snapshots, each with
\* the tag of its exchange: as long as the snapshots together, every entry
\* tagged with an exchange, and every level of a snapshot as often in the
\* side under its exchange's tag as in the snapshot.
IsPermutation(side, snapshots) ==
    /\ Len(side) = Total(snapshots)
    /\ \A i \in DOMAIN side : \E e \in Exchanges : side[i].exchange = to_string(e)
    /\ \A e \in Exchanges :
          \A k \in DOMAIN snapshots[e] :
             CountTagged(side, e, snapshots[e][k]) = CountIn(snapshots[e], snapshots[e][k])

\* C32: MergeState::summary evicts no level: its asks are a permutation of
\* the ask snapshots of all exchanges and its bids of the bid snapshots,
\* every level once for each time a snapshot holds it, with the tag of its
\* own exchange.
C32_NothingEvicted ==
    /\ IsPermutation(summary(state).asks, state.asks)
    /\ IsPermutation(summary(state).bids, state.bids)

\* Both exchanges hold TOP_LEVELS asks and TOP_LEVELS bids, and quote a
\* common level on each side.
C32_Witness ==
    /\ \A e \in Exchanges : Len(state.asks[e]) = TOP_LEVELS /\ Len(state.bids[e]) = TOP_LEVELS
    /\ \E i \in DOMAIN state.asks[0], j \in DOMAIN state.asks[1] : state.asks[0][i] = state.asks[1][j]
    /\ \E i \in DOMAIN state.bids[0], j \in DOMAIN state.bids[1] : state.bids[0][i] = state.bids[1][j]

-----------------------------------------------------------------------------
(* SpecServe: the server with clients that drop their streams, and the     *)
(* Result of the Merger's send, which is Err when the cell has no Receiver *)

\* The Receivers of the cell if the Aggregator held none: those of the
\* streams only.
receiver_count_streams_only(subs_) ==
    2 * Cardinality({s \in DOMAIN subs_ : subs_[s].st \in {"open", "ended"}})

\* The Receivers of the cell: the one the Aggregator keeps for as long as
\* the server runs, and for every stream not yet dropped its `inputs` and
\* the clone its next_future holds.
receiver_count(subs_) ==
    1 + 2 * Cardinality({s \in DOMAIN subs_ : subs_[s].st \in {"open", "ended"}})

\* summaries_tx.send(Some(item)).expect("Watch channel broke!"): send is
\* Err when no Receiver is left, and the expect then panics; the task ends
\* and drops the Sender.
MergerPush ==
    /\ mpc = "send"
    /\ IF receiver_count(subs) = 0
       THEN /\ mpc' = "panicked"
            /\ shared' = [shared EXCEPT !.closed = TRUE]
            /\ subs' = notify_waiters(subs)
            /\ item' = item
       ELSE /\ mpc' = "next"
            /\ shared' = send(shared, item)
            /\ subs' = notify_waiters(subs)
            /\ item' = None
    /\ UNCHANGED <<state, calc, ss, ctor, dec, conn, inputs, alive, pend, produced, fed, outs>>

\* The client goes away: tonic drops the stream of the call, and with it
\* its two Receivers.  Of the stream only the history of what it was
\* delivered last is kept.
DropStream(s) ==
    /\ subs[s].st \in {"open", "ended"}
    /\ subs' = [subs EXCEPT ![s] = [NoStream EXCEPT !.st = "dropped", !.got = subs[s].got]]
    /\ UNCHANGED <<state, item, calc, ss, ctor, dec, conn, inputs, alive, pend, produced, fed, outs, mpc, shared>>

NextServe ==
    \/ \E e \in Exchanges : SourceNext(e) \/ SourceSend(e) \/ SourceDies(e)
    \/ MergerNext
    \/ MergerPush
    \/ MergerEnds
    \/ \E s \in Subscribers : BookSummary(s) \/ PollChanged(s) \/ PollBorrow(s) \/ DropStream(s)

SpecServe == Init /\ [][NextServe]_vars

\* C33: while the server runs the Merger's push never fails, whatever
\* streams are open or were dropped: the merge task never panics with
\* 'Watch channel broke!', and every summary it went to push is in the
\* cell's count of pushes.
C33_PushNeverFails ==
    /\ mpc # "panicked"
    /\ shared.version = (IF mpc = "send" THEN Len(outs) - 1 ELSE Len(outs))

\* Both calls were answered and their streams dropped, the first after it
\* was delivered the first summary, and the second summary was pushed with
\* the cell left to the Aggregator's Receiver alone.
C33_Witness ==
    /\ \A s \in Subscribers : subs[s].st = "dropped"
    /\ Len(outs) = 2
    /\ subs["s1"].got = Pushed(1)
    /\ shared.value = Pushed(2)
    /\ mpc = "next"

=============================================================================
